---- MODULE Spec2Model ----
(***************************************************************************)
(* Model of src/reconcile.py: normalize_sku, clean and the reconciliation  *)
(* part of main (merge, status, flags, sort).                              *)
(*                                                                         *)
(* Text is a sequence of one-character strings, so that strip, upper,      *)
(* lower, replace, the SKU regular expression and the lexical order used   *)
(* by sort_values are computed and not assumed.  A cell of a DataFrame is  *)
(* a record [t, s, v]: t is the kind of the cell, s its text, v its        *)
(* number.  Numbers of the raw quantity column are counted in tenths       *)
(* (25 is 2.5); Int64 cells hold whole numbers.                            *)
(*                                                                         *)
(* Library behaviour is that of pandas 2.x / numpy: astype(str) renders    *)
(* None as "None" and NaN as "nan", Series.round rounds halves to even,    *)
(* a groupby sum skips NA (0 for an all-NA group), groupby sorts its keys, *)
(* comparing pd.NA yields pd.NA, whose truth value raises TypeError.       *)
(***************************************************************************)
EXTENDS Integers, Sequences, FiniteSets, TLC

VARIABLES pc, skuIn, skuOnce, skuTwice, raw, res, raw1, raw2, w1, w2, report

vars == <<pc, skuIn, skuOnce, skuTwice, raw, res, raw1, raw2, w1, w2, report>>

----------------------------------------------------------------------------
(* Bounds of the model *)

MaxSkuLen == 4

MaxRows == 2

MaxTotalRows == 3

----------------------------------------------------------------------------
(* Cells *)

Str(chars) == [t |-> "str", s |-> chars, v |-> 0]

Num(tenths) == [t |-> "num", s |-> <<>>, v |-> tenths]

Int64(n) == [t |-> "int", s |-> <<>>, v |-> n]

PyNone == [t |-> "none", s |-> <<>>, v |-> 0]

NaN == [t |-> "nan", s |-> <<>>, v |-> 0]

NA == [t |-> "na", s |-> <<>>, v |-> 0]

Absent == [t |-> "absent", s |-> <<>>, v |-> 0]

IsNull(val) == val.t \in {"none", "nan", "na"}

(* A sequence given by a rule, as the tuple of its values. *)
Tuple(s) == s \o <<>>

----------------------------------------------------------------------------
(* Python str operations on sequences of characters *)

Upper == <<"A","B","C","D","E","F","G","H","I","J","K","L","M",
           "N","O","P","Q","R","S","T","U","V","W","X","Y","Z">>

Lower == <<"a","b","c","d","e","f","g","h","i","j","k","l","m",
           "n","o","p","q","r","s","t","u","v","w","x","y","z">>

Digits == <<"0","1","2","3","4","5","6","7","8","9">>

IsDigit(c) == \E i \in 1..10 : Digits[i] = c

DigitVal(c) == (CHOOSE i \in 1..10 : Digits[i] = c) - 1

ToUpper(c) ==
  IF \E i \in 1..26 : Lower[i] = c
  THEN Upper[CHOOSE i \in 1..26 : Lower[i] = c]
  ELSE c

ToLower(c) ==
  IF \E i \in 1..26 : Upper[i] = c
  THEN Lower[CHOOSE i \in 1..26 : Upper[i] = c]
  ELSE c

StrUpper(s) == Tuple([i \in 1..Len(s) |-> ToUpper(s[i])])

StrLower(s) == Tuple([i \in 1..Len(s) |-> ToLower(s[i])])

RECURSIVE LStrip(_)
LStrip(s) == IF s # <<>> /\ Head(s) = " " THEN LStrip(Tail(s)) ELSE s

RECURSIVE RStrip(_)
RStrip(s) ==
  IF s # <<>> /\ s[Len(s)] = " " THEN RStrip(SubSeq(s, 1, Len(s) - 1)) ELSE s

Strip(s) == RStrip(LStrip(s))

Remove(s, c) == SelectSeq(s, LAMBDA x : x # c)

(* The code point of a character: the order Python compares text by. *)
Ord(c) ==
  IF \E i \in 1..26 : Upper[i] = c THEN 64 + (CHOOSE i \in 1..26 : Upper[i] = c)
  ELSE IF \E i \in 1..26 : Lower[i] = c THEN 96 + (CHOOSE i \in 1..26 : Lower[i] = c)
  ELSE IF IsDigit(c) THEN 48 + DigitVal(c)
  ELSE IF c = " " THEN 32
  ELSE IF c = "-" THEN 45
  ELSE IF c = "." THEN 46
  ELSE 95

RECURSIVE StrLess(_, _)
StrLess(a, b) ==
  IF b = <<>> THEN FALSE
  ELSE IF a = <<>> THEN TRUE
  ELSE IF Head(a) = Head(b) THEN StrLess(Tail(a), Tail(b))
  ELSE Ord(Head(a)) < Ord(Head(b))

----------------------------------------------------------------------------
(* normalize_sku *)

NullTokens == { <<"n","o","n","e">>, <<"n","a","n">>, <<"n","u","l","l">> }

(* re.sub(r"^SKU(\d+)$", r"SKU-\1", s) *)
SkuRegexSub(s) ==
  IF /\ Len(s) >= 4
     /\ SubSeq(s, 1, 3) = <<"S","K","U">>
     /\ \A i \in 4..Len(s) : IsDigit(s[i])
  THEN <<"S","K","U","-">> \o SubSeq(s, 4, Len(s))
  ELSE s

(* str(val) for the cells a text column holds *)
PyStr(val) ==
  CASE val.t = "str" -> val.s
    [] val.t = "none" -> <<"N","o","n","e">>
    [] val.t = "nan" -> <<"n","a","n">>
    [] OTHER -> val.s

normalize_sku(val) ==
  IF val.t \in {"none", "nan"} THEN PyNone
  ELSE LET s == Strip(PyStr(val)) IN
       IF s = <<>> THEN PyNone
       ELSE IF StrLower(Strip(s)) \in NullTokens THEN PyNone
       ELSE Str(SkuRegexSub(Remove(Remove(StrUpper(s), " "), "_")))

----------------------------------------------------------------------------
(* Numbers as text: str(x) of a Python int or float, and pd.to_numeric of a
   decimal literal.  Numbers are in tenths; the literals covered are an
   optional sign, digits, and at most one digit after the point. *)

RECURSIVE NatDigits(_)
NatDigits(n) ==
  IF n < 10 THEN <<Digits[n + 1]>>
  ELSE NatDigits(n \div 10) \o <<Digits[(n % 10) + 1]>>

Abs(n) == IF n < 0 THEN -n ELSE n

FormatNumber(tenths) ==
  LET a == Abs(tenths)
      sign == IF tenths < 0 THEN <<"-">> ELSE <<>>
  IN IF a % 10 = 0 THEN sign \o NatDigits(a \div 10)
     ELSE sign \o NatDigits(a \div 10) \o <<".">> \o <<Digits[(a % 10) + 1]>>

RECURSIVE DigitsVal(_)
DigitsVal(s) ==
  IF s = <<>> THEN 0 ELSE 10 * DigitsVal(SubSeq(s, 1, Len(s) - 1)) + DigitVal(s[Len(s)])

AllDigits(s) == \A i \in 1..Len(s) : IsDigit(s[i])

ParseNumber(text) ==
  LET neg == text # <<>> /\ Head(text) = "-"
      body == IF text # <<>> /\ Head(text) \in {"-", "+"} THEN Tail(text) ELSE text
      dots == {i \in 1..Len(body) : body[i] = "."}
      mag ==
        IF dots = {} THEN
          IF body # <<>> /\ AllDigits(body) THEN Num(10 * DigitsVal(body)) ELSE NaN
        ELSE LET d == CHOOSE i \in dots : TRUE
                 ip == SubSeq(body, 1, d - 1)
                 fp == SubSeq(body, d + 1, Len(body))
             IN IF /\ Cardinality(dots) = 1 /\ AllDigits(ip) /\ AllDigits(fp)
                   /\ Len(ip) + Len(fp) > 0 /\ Len(fp) <= 1
                THEN Num(10 * DigitsVal(ip) + DigitsVal(fp))
                ELSE NaN
  IN IF mag.t = "num" /\ neg THEN Num(-mag.v) ELSE mag

----------------------------------------------------------------------------
(* DataFrames *)

Columns == {"sku", "quantity", "location", "name", "last_counted"}

Cells(rows, c) == Tuple([i \in 1..Len(rows) |-> rows[i][c]])

(* pd.DataFrame(...): a column holding text, or nothing but None, has dtype
   object; any other column is numeric, its None cells stored as NaN. *)
IsObjectColumn(cells) ==
  \/ \E i \in 1..Len(cells) : cells[i].t = "str"
  \/ Len(cells) > 0 /\ \A i \in 1..Len(cells) : cells[i].t = "none"

ColumnOf(cols, rows, c) ==
  LET cells == Cells(rows, c) IN
  IF c \notin cols THEN Tuple([i \in 1..Len(rows) |-> Absent])
  ELSE IF IsObjectColumn(cells) THEN cells
  ELSE Tuple([i \in 1..Len(cells) |-> IF cells[i].t = "none" THEN NaN ELSE cells[i]])

Row(sku, quantity, location, name, last_counted) ==
  [sku |-> sku, quantity |-> quantity, location |-> location,
   name |-> name, last_counted |-> last_counted]

DataFrame(cols, rows) ==
  LET sku == ColumnOf(cols, rows, "sku")
      quantity == ColumnOf(cols, rows, "quantity")
      location == ColumnOf(cols, rows, "location")
      name == ColumnOf(cols, rows, "name")
      last_counted == ColumnOf(cols, rows, "last_counted")
  IN [cols |-> cols,
      rows |-> Tuple([i \in 1..Len(rows) |->
                 Row(sku[i], quantity[i], location[i], name[i], last_counted[i])])]

(* Series.astype(str) of one cell *)
AsTypeStr(val) ==
  CASE val.t = "str" -> val
    [] val.t = "none" -> Str(<<"N","o","n","e">>)
    [] val.t = "nan" -> Str(<<"n","a","n">>)
    [] val.t = "num" -> Str(FormatNumber(val.v))
    [] OTHER -> val

(* df[col].astype(str).str.strip() *)
StrStrip(val) == Str(Strip(AsTypeStr(val).s))

RECURSIVE IndicesFrom(_, _, _)
IndicesFrom(i, n, keep) ==
  IF i > n THEN <<>>
  ELSE (IF keep[i] THEN <<i>> ELSE <<>>) \o IndicesFrom(i + 1, n, keep)

(* The row numbers a boolean mask selects, in row order. *)
Where(mask) == IndicesFrom(1, Len(mask), mask)

CountTrue(mask) == Cardinality({i \in 1..Len(mask) : mask[i]})

----------------------------------------------------------------------------
(* clean *)

Required == <<"sku", "quantity", "location">>

SkuFormatCap == 200

Issue(type, sku, count, detail) ==
  [type |-> type, sku |-> sku, count |-> count, detail |-> detail]

Arrow == <<" ", "-", ">", " ">>

(* pd.to_numeric(..., errors="coerce") of one cell *)
ToNumeric(val) ==
  CASE val.t = "str" -> ParseNumber(val.s)
    [] val.t = "num" -> val
    [] OTHER -> NaN

(* RoundHalfEven with halves rounded away from zero instead *)
RoundHalfAwayFromZero(tenths) ==
  IF tenths >= 0 THEN (tenths + 5) \div 10 ELSE -((-tenths + 5) \div 10)

(* Series.round() of a float counted in tenths: numpy rounds halves to even *)
RoundHalfEven(tenths) ==
  LET f == tenths \div 10
      r == tenths % 10
  IN IF r < 5 THEN f
     ELSE IF r > 5 THEN f + 1
     ELSE IF f % 2 = 0 THEN f ELSE f + 1

(* .round().astype("Int64") of one cell *)
RoundToInt64(val) == IF val.t = "num" THEN Int64(RoundHalfEven(val.v)) ELSE NA

(* df.duplicated(["sku", "location"], keep=False) *)
DuplicatedKeys(rows) ==
  Tuple([k \in 1..Len(rows) |->
     \E j \in 1..Len(rows) :
        j # k /\ rows[j].sku = rows[k].sku /\ rows[j].location = rows[k].location])

KeyLess(a, b) ==
  \/ StrLess(a[1].s, b[1].s)
  \/ a[1] = b[1] /\ StrLess(a[2].s, b[2].s)

RECURSIVE SortKeys(_)
SortKeys(keys) ==
  IF keys = {} THEN <<>>
  ELSE LET m == CHOOSE k \in keys : \A o \in keys \ {k} : KeyLess(k, o)
       IN <<m>> \o SortKeys(keys \ {m})

RECURSIVE SumInt64(_)
(* groupby "sum" of an Int64 column: NA is skipped, an empty sum is 0 *)
SumInt64(cells) ==
  IF cells = <<>> THEN 0
  ELSE (IF Head(cells).t = "int" THEN Head(cells).v ELSE 0) + SumInt64(Tail(cells))

GroupSum(cells) == Int64(SumInt64(cells))

(* groupby "first": the first cell that is not null *)
GroupFirst(cells) ==
  LET nn == SelectSeq(cells, LAMBDA x : ~IsNull(x))
  IN IF nn = <<>> THEN NaN ELSE Head(nn)

(* GroupByAgg without the grouping: every row stays a record of its own *)
GroupByAggPerRow(rows, hasLastCounted) ==
  Tuple([k \in 1..Len(rows) |->
     [sku |-> rows[k].sku,
      location |-> rows[k].location,
      quantity |-> rows[k].quantity,
      name |-> rows[k].name,
      last_counted |-> IF hasLastCounted THEN rows[k].last_counted ELSE rows[k].sku,
      quantity_raw |-> Absent]])

(* df.groupby(["sku", "location"], as_index=False).agg(...) *)
GroupByAgg(rows, hasLastCounted) ==
  LET keys == SortKeys({ <<rows[k].sku, rows[k].location>> : k \in 1..Len(rows) })
      members(key) ==
        SelectSeq(rows, LAMBDA r : r.sku = key[1] /\ r.location = key[2])
  IN Tuple([g \in 1..Len(keys) |->
        LET grp == members(keys[g]) IN
        [sku |-> keys[g][1],
         location |-> keys[g][2],
         quantity |-> GroupSum(Cells(grp, "quantity")),
         name |-> GroupFirst(Cells(grp, "name")),
         last_counted |->
           IF hasLastCounted THEN GroupFirst(Cells(grp, "last_counted"))
           ELSE GroupFirst(Cells(grp, "sku")),
         quantity_raw |-> Absent]])

Raised(kind, message, missing) ==
  [outcome |-> kind, message |-> message, missing |-> missing,
   cleaned |-> <<>>, issues |-> <<>>,
   sku |-> <<>>, location |-> <<>>, quantity |-> <<>>, bad_key |-> <<>>]

clean(df) ==
  LET n == Len(df.rows)
      obj(c) == c \in df.cols /\ IsObjectColumn(Cells(df.rows, c))
      strip(c) ==
        IF obj(c) THEN Tuple([i \in 1..n |-> StrStrip(df.rows[i][c])])
        ELSE Cells(df.rows, c)
      stripped_sku == strip("sku")
      stripped_quantity == strip("quantity")
      stripped_location == strip("location")
      stripped_name == strip("name")
      stripped_last_counted == strip("last_counted")
      missing == SelectSeq(Required, LAMBDA c : c \notin df.cols)
  IN
  IF missing # <<>>
  THEN Raised("ValueError", "Missing required columns", missing)
  ELSE
  LET original_sku == stripped_sku
      sku == Tuple([i \in 1..n |-> normalize_sku(original_sku[i])])
      changed ==
        Tuple([i \in 1..n |->
           (IF IsNull(sku[i]) THEN <<>> ELSE sku[i].s)
             # StrUpper(Strip(AsTypeStr(original_sku[i]).s))])
      changedIdx == Where(changed)
      capped ==
        SubSeq(changedIdx, 1,
               IF Len(changedIdx) < SkuFormatCap THEN Len(changedIdx) ELSE SkuFormatCap)
      issues1 ==
        Tuple([k \in 1..Len(capped) |->
           Issue("SKU_FORMAT", sku[capped[k]], 1,
                 PyStr(original_sku[capped[k]]) \o Arrow \o PyStr(sku[capped[k]]))])
      location == Tuple([i \in 1..n |-> StrStrip(stripped_location[i])])
      bad_loc ==
        Tuple([i \in 1..n |->
           \/ Len(location[i].s) = 0
           \/ StrLower(location[i].s) = <<"n","a","n">>])
      issues2 ==
        IF CountTrue(bad_loc) > 0
        THEN <<Issue("MISSING_LOCATION", PyNone, CountTrue(bad_loc), <<>>)>> ELSE <<>>
      quantity_raw == stripped_quantity
      parsed == Tuple([i \in 1..n |-> ToNumeric(quantity_raw[i])])
      bad_qty == Tuple([i \in 1..n |-> parsed[i].t # "num"])
      issues3 ==
        IF CountTrue(bad_qty) > 0
        THEN <<Issue("NULL_OR_NONNUMERIC_QUANTITY", PyNone, CountTrue(bad_qty), <<>>)>>
        ELSE <<>>
      float_qty == Tuple([i \in 1..n |-> parsed[i].t = "num" /\ parsed[i].v % 10 # 0])
      issues4 ==
        IF CountTrue(float_qty) > 0
        THEN <<Issue("FLOAT_QUANTITY", PyNone, CountTrue(float_qty), <<>>)>> ELSE <<>>
      quantity == Tuple([i \in 1..n |-> RoundToInt64(parsed[i])])
      neg == Tuple([i \in 1..n |-> quantity[i].t = "int" /\ quantity[i].v < 0])
      issues5 ==
        IF CountTrue(neg) > 0
        THEN <<Issue("NEGATIVE_QUANTITY", PyNone, CountTrue(neg), <<>>)>> ELSE <<>>
      bad_key == Tuple([i \in 1..n |-> IsNull(sku[i]) \/ bad_loc[i]])
      issues6 ==
        IF CountTrue(bad_key) > 0
        THEN <<Issue("DROPPED_MISSING_KEY", PyNone, CountTrue(bad_key), <<>>)>> ELSE <<>>
      kept == Where(Tuple([i \in 1..n |-> ~bad_key[i]]))
      rows ==
        Tuple([k \in 1..Len(kept) |->
           [sku |-> sku[kept[k]],
            location |-> location[kept[k]],
            quantity |-> quantity[kept[k]],
            name |-> stripped_name[kept[k]],
            last_counted |-> stripped_last_counted[kept[k]],
            quantity_raw |-> quantity_raw[kept[k]]]])
      dup_key == DuplicatedKeys(rows)
      issues7 ==
        IF CountTrue(dup_key) > 0
        THEN <<Issue("DUPLICATE_KEY", PyNone, CountTrue(dup_key), <<>>)>> ELSE <<>>
  IN
  IF CountTrue(dup_key) > 0 /\ "name" \notin df.cols
  THEN Raised("KeyError", "Column(s) ['name'] do not exist", <<>>)
  ELSE
  [outcome |-> "ok", message |-> "", missing |-> <<>>,
   cleaned |->
     IF CountTrue(dup_key) > 0
     THEN GroupByAgg(rows, "last_counted" \in df.cols) ELSE rows,
   issues |-> issues1 \o issues2 \o issues3 \o issues4 \o issues5 \o issues6 \o issues7,
   sku |-> sku, location |-> location, quantity |-> quantity, bad_key |-> bad_key]

----------------------------------------------------------------------------
(* main: merge, status, flags, sort *)

(* w1.merge(w2, on="sku", how="outer", suffixes=("_1", "_2"), indicator=True):
   the keys in lexical order; a sku held by both sides gives one row per pair
   of its left and right rows. *)
MergedRow(sku, l, r, merge) ==
  [sku |-> sku,
   name_1 |-> l.name, name_2 |-> r.name,
   location_1 |-> l.location, location_2 |-> r.location,
   quantity_1 |-> l.quantity, quantity_2 |-> r.quantity,
   merge |-> merge]

NoMatch == [name |-> NaN, location |-> NaN, quantity |-> NA]

RECURSIVE SortSkus(_)
SortSkus(skus) ==
  IF skus = {} THEN <<>>
  ELSE LET m == CHOOSE k \in skus : \A o \in skus \ {k} : StrLess(k.s, o.s)
       IN <<m>> \o SortSkus(skus \ {m})

RECURSIVE Pairs(_, _, _)
Pairs(sku, ls, rs) ==
  IF ls = <<>> THEN <<>>
  ELSE Tuple([k \in 1..Len(rs) |-> MergedRow(sku, Head(ls), rs[k], "both")])
         \o Pairs(sku, Tail(ls), rs)

RowsOfSku(sku, left, right) ==
  LET ls == SelectSeq(left, LAMBDA x : x.sku = sku)
      rs == SelectSeq(right, LAMBDA x : x.sku = sku)
  IN IF ls # <<>> /\ rs # <<>> THEN Pairs(sku, ls, rs)
     ELSE IF rs = <<>>
     THEN Tuple([k \in 1..Len(ls) |-> MergedRow(sku, ls[k], NoMatch, "left_only")])
     ELSE Tuple([k \in 1..Len(rs) |-> MergedRow(sku, NoMatch, rs[k], "right_only")])

RECURSIVE ConcatRows(_, _, _)
ConcatRows(skus, left, right) ==
  IF skus = <<>> THEN <<>>
  ELSE RowsOfSku(Head(skus), left, right) \o ConcatRows(Tail(skus), left, right)

(* MergeOuter with how="left" instead: the skus of the left side only *)
MergeLeft(left, right) ==
  ConcatRows(SortSkus({left[k].sku : k \in 1..Len(left)}), left, right)

MergeOuter(left, right) ==
  ConcatRows(
    SortSkus({left[k].sku : k \in 1..Len(left)} \cup {right[k].sku : k \in 1..Len(right)}),
    left, right)

(* status(row): == on a pd.NA quantity yields pd.NA, whose truth value
   raises TypeError *)
status(row) ==
  IF row.merge = "both"
  THEN IF row.quantity_1.t = "na" \/ row.quantity_2.t = "na" THEN "TypeError"
       ELSE IF row.quantity_1 = row.quantity_2 THEN "present_in_both_unchanged"
       ELSE "present_in_both_qty_changed"
  ELSE IF row.merge = "left_only" THEN "only_in_snapshot_1_removed"
  ELSE "only_in_snapshot_2_added"

(* The text of a status label, which sort_values compares *)
StatusText(label) ==
  CASE label = "present_in_both_unchanged" ->
         <<"p","r","e","s","e","n","t","_","i","n","_","b","o","t","h","_","u","n","c","h","a","n","g","e","d">>
    [] label = "present_in_both_qty_changed" ->
         <<"p","r","e","s","e","n","t","_","i","n","_","b","o","t","h","_","q","t","y","_","c","h","a","n","g","e","d">>
    [] label = "only_in_snapshot_1_removed" ->
         <<"o","n","l","y","_","i","n","_","s","n","a","p","s","h","o","t","_","1","_","r","e","m","o","v","e","d">>
    [] label = "only_in_snapshot_2_added" ->
         <<"o","n","l","y","_","i","n","_","s","n","a","p","s","h","o","t","_","2","_","a","d","d","e","d">>

(* merged["qty_2"] - merged["qty_1"] *)
QtyDelta(q1, q2) == IF q1.t = "int" /\ q2.t = "int" THEN Int64(q2.v - q1.v) ELSE NA

(* The nearest integer to num / den, den > 0, halves to even *)
RoundDiv(num, den) ==
  LET f == num \div den
      r == num % den
  IN IF 2 * r < den THEN f
     ELSE IF 2 * r > den THEN f + 1
     ELSE IF f % 2 = 0 THEN f ELSE f + 1

(* ((qty_delta / qty_1) * 100).round(2), in hundredths of a percent; the
   quotients of the modelled quantities are no rounding ties. *)
QtyDeltaPct(q1, delta) ==
  IF q1.t = "int" /\ q1.v # 0
  THEN IF delta.t = "int"
       THEN [t |-> "pct", s |-> <<>>,
             v |-> IF q1.v > 0 THEN RoundDiv(delta.v * 10000, q1.v)
                   ELSE RoundDiv(-(delta.v * 10000), -q1.v)]
       ELSE NA
  ELSE NA

(* name_mismatch without the lower-casing *)
name_mismatch_case_sensitive(n1, n2) ==
  /\ ~IsNull(n1)
  /\ ~IsNull(n2)
  /\ Strip(n1.s) # Strip(n2.s)

(* n1.notna() & n2.notna() & (n1.str.strip().str.lower() != n2.str.strip().str.lower()) *)
name_mismatch(n1, n2) ==
  /\ ~IsNull(n1)
  /\ ~IsNull(n2)
  /\ StrLower(Strip(n1.s)) # StrLower(Strip(n2.s))

FillNa(cell) == IF IsNull(cell) THEN <<>> ELSE cell.s

(* location_1.fillna("") != location_2.fillna("") *)
location_changed(l1, l2) == FillNa(l1) # FillNa(l2)

Item(row) ==
  [sku |-> row.sku,
   name_1 |-> row.name_1, name_2 |-> row.name_2,
   location_1 |-> row.location_1, location_2 |-> row.location_2,
   qty_1 |-> row.quantity_1, qty_2 |-> row.quantity_2,
   qty_delta |-> QtyDelta(row.quantity_1, row.quantity_2),
   qty_delta_pct |-> QtyDeltaPct(row.quantity_1, QtyDelta(row.quantity_1, row.quantity_2)),
   status |-> status(row),
   name_mismatch |-> row.merge = "both" /\ name_mismatch(row.name_1, row.name_2),
   location_changed |-> row.merge = "both" /\ location_changed(row.location_1, row.location_2)]

(* ItemLess with the sku as the only sort key *)
ItemLessBySku(a, b) == StrLess(a.sku.s, b.sku.s)

(* The order of sort_values(["status", "sku"]) *)
ItemLess(a, b) ==
  \/ StrLess(StatusText(a.status), StatusText(b.status))
  \/ a.status = b.status /\ StrLess(a.sku.s, b.sku.s)

RECURSIVE InsertItem(_, _)
InsertItem(sorted, item) ==
  IF sorted = <<>> THEN <<item>>
  ELSE IF ItemLess(item, Head(sorted)) THEN <<item>> \o sorted
  ELSE <<Head(sorted)>> \o InsertItem(Tail(sorted), item)

RECURSIVE SortValues(_)
SortValues(items) ==
  IF items = <<>> THEN <<>>
  ELSE InsertItem(SortValues(SubSeq(items, 1, Len(items) - 1)), items[Len(items)])

CountStatus(items, label) ==
  Cardinality({k \in 1..Len(items) : items[k].status = label})

Summary(items) ==
  [changed_rows |-> CountStatus(items, "present_in_both_qty_changed"),
   added_rows |-> CountStatus(items, "only_in_snapshot_2_added"),
   removed_rows |-> CountStatus(items, "only_in_snapshot_1_removed"),
   location_changes |-> Cardinality({k \in 1..Len(items) : items[k].location_changed}),
   name_mismatches |-> Cardinality({k \in 1..Len(items) : items[k].name_mismatch})]

NoSummary ==
  [changed_rows |-> 0, added_rows |-> 0, removed_rows |-> 0,
   location_changes |-> 0, name_mismatches |-> 0]

(* main from the merge on: the items table and the summary, or the error
   that ends the run *)
reconcile(left, right) ==
  LET merged == MergeOuter(left, right)
      items == Tuple([k \in 1..Len(merged) |-> Item(merged[k])])
  IN IF \E k \in 1..Len(items) : items[k].status = "TypeError"
     THEN [outcome |-> "TypeError", items |-> <<>>, summary |-> NoSummary]
     ELSE [outcome |-> "ok", items |-> SortValues(items),
           summary |-> Summary(SortValues(items))]

----------------------------------------------------------------------------
(* normalize_sku applied twice to one input *)

SkuAlphabet == {"s","k","u","n","a","S","K","U","N","A","5"," ","_","-"}

SkuInputs ==
  {PyNone, NaN} \cup
  { Str(s) : s \in UNION { [1..n -> SkuAlphabet] : n \in 0..MaxSkuLen } }

Idle == <<>>

InitSku ==
  /\ pc = "sku"
  /\ skuIn \in SkuInputs
  /\ skuOnce = Absent /\ skuTwice = Absent
  /\ raw = Idle /\ res = Idle
  /\ raw1 = Idle /\ raw2 = Idle /\ w1 = Idle /\ w2 = Idle /\ report = Idle

NormalizeOnce ==
  /\ pc = "sku"
  /\ skuOnce' = normalize_sku(skuIn)
  /\ pc' = "once"
  /\ UNCHANGED <<skuIn, skuTwice, raw, res, raw1, raw2, w1, w2, report>>

NormalizeAgain ==
  /\ pc = "once"
  /\ skuTwice' = normalize_sku(skuOnce)
  /\ pc' = "twice"
  /\ UNCHANGED <<skuIn, skuOnce, raw, res, raw1, raw2, w1, w2, report>>

NextSku == NormalizeOnce \/ NormalizeAgain

SpecSku == InitSku /\ [][NextSku]_vars

(* C3: normalize_sku is idempotent: whenever normalize_sku(x) is non-null,
   normalize_sku(normalize_sku(x)) equals normalize_sku(x). *)
C3_Idempotent ==
  pc = "twice" /\ ~IsNull(skuOnce) => skuTwice = skuOnce

----------------------------------------------------------------------------
(* clean applied to one raw snapshot *)

RawSkus == { Str(<<"s","k","u"," ","1">>), Str(<<"S","K","U","-","2">>), PyNone }

RawQuantities == { Num(30), Num(25), Num(-27), Str(<<"o","o","p","s">>) }

RawLocations == { Str(<<"A">>), Str(<<" ">>), Str(<<"N","a","N">>), PyNone, NaN }

(* The name and last_counted of the i-th raw row: pairwise distinct, so that
   the row a value came from can be read off it. *)
NameAt(i) == Str(<<"n">> \o NatDigits(i))

(* A name column read from a file whose names are numbers and whose first
   name is empty: read_csv makes it a float column, NaN in the first row. *)
NumericNameAt(i) == IF i = 1 THEN NaN ELSE Num(10 * i)

NameKinds == {"text", "numeric"}

NameOf(kind, i) == IF kind = "text" THEN NameAt(i) ELSE NumericNameAt(i)

CountedAt(i) == Str(<<"t">> \o NatDigits(i))

TestColumns == {"sku", "quantity", "location", "name"}

ColumnSets ==
  { TestColumns,
    TestColumns \cup {"last_counted"},
    TestColumns \ {"name"},
    TestColumns \ {"location"},
    {"name"} }

(* Frames with the columns of the tests take every raw location; the other
   column sets take a good and a missing one. *)
LocationsOf(cols) ==
  IF "location" \notin cols THEN {Absent}
  ELSE IF cols = TestColumns THEN RawLocations
  ELSE { Str(<<"A">>), NaN }

FieldDomain(cols, c, all) == IF c \in cols THEN all ELSE {Absent}

(* Frames with all five columns take a text or a numeric name column; the
   other column sets take text names. *)
NameKindsOf(cols) ==
  IF cols = TestColumns \cup {"last_counted"} THEN NameKinds ELSE {"text"}

RawFrame(cols, n, f, kind) ==
  DataFrame(cols,
    [i \in 1..n |->
       Row(f[i][1], f[i][2], f[i][3],
           IF "name" \in cols THEN NameOf(kind, i) ELSE Absent,
           IF "last_counted" \in cols THEN CountedAt(i) ELSE Absent)])

InitClean ==
  /\ pc = "raw"
  /\ \E cols \in ColumnSets, n \in 0..MaxRows :
       \E f \in [1..n -> FieldDomain(cols, "sku", RawSkus)
                          \X FieldDomain(cols, "quantity", RawQuantities)
                          \X LocationsOf(cols)],
          kind \in NameKindsOf(cols) :
          raw = RawFrame(cols, n, f, kind)
  /\ res = Idle
  /\ skuIn = Absent /\ skuOnce = Absent /\ skuTwice = Absent
  /\ raw1 = Idle /\ raw2 = Idle /\ w1 = Idle /\ w2 = Idle /\ report = Idle

Clean ==
  /\ pc = "raw"
  /\ res' = clean(raw)
  /\ pc' = "cleaned"
  /\ UNCHANGED <<skuIn, skuOnce, skuTwice, raw, raw1, raw2, w1, w2, report>>

NextClean == Clean

SpecClean == InitClean /\ [][NextClean]_vars

----------------------------------------------------------------------------
(* Properties of clean.  What a claim expects is computed from the raw frame
   with the definitions below, and compared with what clean returned. *)

Cleaned == pc = "cleaned" /\ res.outcome = "ok"

HasIssue(type) == \E k \in 1..Len(res.issues) : res.issues[k].type = type

IssueCount(type) == Cardinality({k \in 1..Len(res.issues) : res.issues[k].type = type})

(* The raw rows that survive the key filter and carry the key of cleaned row c *)
MembersOf(c) ==
  { i \in 1..Len(raw.rows) :
      /\ ~res.bad_key[i]
      /\ res.sku[i] = res.cleaned[c].sku
      /\ res.location[i] = res.cleaned[c].location }

Min(S) == CHOOSE m \in S : \A o \in S : m <= o

RECURSIVE SumOver(_, _)
SumOver(S, q) ==
  IF S = {} THEN 0
  ELSE LET i == CHOOSE x \in S : TRUE
       IN (IF q[i].t = "int" THEN q[i].v ELSE 0) + SumOver(S \ {i}, q)

(* C1: whenever clean returns, no two cleaned records share (sku, location),
   and every key of a row that passed the key filter is still present: rows
   with equal keys are merged, not dropped. *)
C1_UniqueKeys ==
  Cleaned =>
    /\ \A a, b \in 1..Len(res.cleaned) :
         a # b =>
           <<res.cleaned[a].sku, res.cleaned[a].location>>
             # <<res.cleaned[b].sku, res.cleaned[b].location>>
    /\ \A i \in 1..Len(raw.rows) :
         ~res.bad_key[i] => \E c \in 1..Len(res.cleaned) : i \in MembersOf(c)
    /\ \A c \in 1..Len(res.cleaned) : MembersOf(c) # {}

C1_Witness ==
  /\ Cleaned
  /\ HasIssue("DUPLICATE_KEY")
  /\ Len(raw.rows) = 2
  /\ Len(res.cleaned) = 1
  /\ Cardinality(MembersOf(1)) = 2

RequiredMissing == { c \in {"sku", "quantity", "location"} : c \notin raw.cols }

(* C2: clean fails if and only if a required column is absent; then it raises
   an error whose message contains "Missing required columns" and returns
   nothing; with the three columns present it returns whatever the rows. *)
C2_FailsOnlyOnMissingColumn ==
  pc = "cleaned" =>
    IF RequiredMissing # {}
    THEN /\ res.outcome = "ValueError"
         /\ res.message = "Missing required columns"
         /\ res.cleaned = <<>> /\ res.issues = <<>>
    ELSE res.outcome = "ok"

(* The locations the claim calls missing: null, empty, whitespace-only or
   "nan" in any case. *)
ClaimedBadLocation(cell) ==
  \/ cell.t \in {"none", "nan"}
  \/ cell.t = "str" /\ Strip(cell.s) = <<>>
  \/ cell.t = "str" /\ StrLower(Strip(cell.s)) = <<"n","a","n">>

(* C4: a row is excluded exactly when its normalized sku is null or its
   location is null, empty, whitespace-only or "nan"; every other row
   survives; one DROPPED_MISSING_KEY issue counts the excluded rows when
   there are any, and none is recorded otherwise. *)
C4_ExcludedExactlyBadKeys ==
  Cleaned =>
    LET excluded ==
          { i \in 1..Len(raw.rows) :
              IsNull(res.sku[i]) \/ ClaimedBadLocation(raw.rows[i].location) }
    IN /\ \A i \in 1..Len(raw.rows) : res.bad_key[i] <=> i \in excluded
       /\ ~HasIssue("DUPLICATE_KEY") =>
            Len(res.cleaned) = Len(raw.rows) - Cardinality(excluded)
       /\ IssueCount("DROPPED_MISSING_KEY") = IF excluded = {} THEN 0 ELSE 1
       /\ \A k \in 1..Len(res.issues) :
            res.issues[k].type = "DROPPED_MISSING_KEY" =>
              res.issues[k].count = Cardinality(excluded)

(* C5: a collapsed group's quantity is the sum of its non-null quantities,
   and is null when every quantity of the group is null; its name is the
   name of the group's first row in original row order. *)
C5_GroupSumAndFirstName ==
  Cleaned /\ HasIssue("DUPLICATE_KEY") =>
    \A c \in 1..Len(res.cleaned) :
      /\ res.cleaned[c].quantity =
           IF \A i \in MembersOf(c) : res.quantity[i].t = "na"
           THEN NA ELSE Int64(SumOver(MembersOf(c), res.quantity))
      /\ res.cleaned[c].name = raw.rows[Min(MembersOf(c))].name

(* The raw quantities that are numbers, in tenths *)
NumericRows == { i \in 1..Len(raw.rows) : raw.rows[i].quantity.t = "num" }

NonIntegralRows == { i \in NumericRows : raw.rows[i].quantity.v % 10 # 0 }

FloatIssueCounts ==
  /\ IssueCount("FLOAT_QUANTITY") = IF NonIntegralRows = {} THEN 0 ELSE 1
  /\ \A k \in 1..Len(res.issues) :
       res.issues[k].type = "FLOAT_QUANTITY" =>
         res.issues[k].count = Cardinality(NonIntegralRows)

(* C6 as amended: a non-integral quantity is rounded to the nearest integer,
   an exact half to the even neighbour (0.5 -> 0, 1.5 -> 2, 2.5 -> 2,
   -2.5 -> -2); one FLOAT_QUANTITY issue counts those rows; integral
   quantities are unchanged. *)
C6_RoundsHalfToEven ==
  Cleaned =>
    /\ \A i \in NumericRows :
         LET t == raw.rows[i].quantity.v
             q == res.quantity[i]
         IN /\ q.t = "int"
            /\ Abs(10 * q.v - t) <= 5
            /\ Abs(10 * q.v - t) = 5 => q.v % 2 = 0
    /\ FloatIssueCounts

(* C6 as claimed: an exact half is rounded away from zero. *)
C6_RoundsHalfAwayFromZero ==
  Cleaned =>
    /\ \A i \in NumericRows :
         LET t == raw.rows[i].quantity.v
             q == res.quantity[i]
         IN /\ q.t = "int"
            /\ Abs(10 * q.v - t) <= 5
            /\ Abs(10 * q.v - t) = 5 => 10 * Abs(q.v) > Abs(t)
    /\ FloatIssueCounts

C6_Witness ==
  /\ Cleaned
  /\ \E i \in NumericRows :
       raw.rows[i].quantity.v = 25 /\ res.quantity[i] = Int64(2)
  /\ \E i \in NumericRows :
       raw.rows[i].quantity.v = -27 /\ res.quantity[i] = Int64(-3)
  /\ HasIssue("FLOAT_QUANTITY")

----------------------------------------------------------------------------
(* main applied to two raw snapshots *)

Week1Skus == { Str(<<"S","K","U","-","1">>), Str(<<"s","k","u"," ","2">>) }

Week1Quantities == { Num(50), Str(<<"o","o","p","s">>) }

Week1Locations == { Str(<<"A">>), Str(<<"B">>) }

Week1Names == { Str(<<"W","i","d","g","e","t">>) }

Week2Skus == { Str(<<"S","K","U","-","1">>), Str(<<"s","k","u"," ","2">>) }

Week2Quantities == { Num(50), Num(70), Str(<<"o","o","p","s">>) }

Week2Locations == { Str(<<"A">>) }

Week2Names == { Str(<<"w","i","d","g","e","t">>), Str(<<"G","a","d","g","e","t">>), NaN }

WeekFrame(n, f) ==
  DataFrame(TestColumns,
    [i \in 1..n |-> Row(f[i][1], f[i][2], f[i][3], f[i][4], Absent)])

InitMain ==
  /\ pc = "main"
  /\ \E n1 \in 1..MaxTotalRows :
       \E n2 \in 0..(MaxTotalRows - n1) :
         /\ \E f \in [1..n1 -> Week1Skus \X Week1Quantities \X Week1Locations \X Week1Names] :
              raw1 = WeekFrame(n1, f)
         /\ \E f \in [1..n2 -> Week2Skus \X Week2Quantities \X Week2Locations \X Week2Names] :
              raw2 = WeekFrame(n2, f)
  /\ w1 = Idle /\ w2 = Idle /\ report = Idle
  /\ skuIn = Absent /\ skuOnce = Absent /\ skuTwice = Absent
  /\ raw = Idle /\ res = Idle

CleanWeek1 ==
  /\ pc = "main"
  /\ w1' = clean(raw1)
  /\ pc' = "week1"
  /\ UNCHANGED <<skuIn, skuOnce, skuTwice, raw, res, raw1, raw2, w2, report>>

CleanWeek2 ==
  /\ pc = "week1"
  /\ w1.outcome = "ok"
  /\ w2' = clean(raw2)
  /\ pc' = "week2"
  /\ UNCHANGED <<skuIn, skuOnce, skuTwice, raw, res, raw1, raw2, w1, report>>

Reconcile ==
  /\ pc = "week2"
  /\ w2.outcome = "ok"
  /\ report' = reconcile(w1.cleaned, w2.cleaned)
  /\ pc' = "done"
  /\ UNCHANGED <<skuIn, skuOnce, skuTwice, raw, res, raw1, raw2, w1, w2>>

NextMain == CleanWeek1 \/ CleanWeek2 \/ Reconcile

SpecMain == InitMain /\ [][NextMain]_vars

----------------------------------------------------------------------------
(* Properties of the reconciliation table, stated over the two cleaned
   snapshots w1.cleaned and w2.cleaned and the table main built from them. *)

Reconciled == pc = "done" /\ report.outcome = "ok"

RowsWith(cleaned, sku) == {k \in 1..Len(cleaned) : cleaned[k].sku = sku}

In1(sku) == RowsWith(w1.cleaned, sku) # {}

In2(sku) == RowsWith(w2.cleaned, sku) # {}

ItemsWith(sku) == {k \in 1..Len(report.items) : report.items[k].sku = sku}

AllSkus ==
  {w1.cleaned[k].sku : k \in 1..Len(w1.cleaned)}
    \cup {w2.cleaned[k].sku : k \in 1..Len(w2.cleaned)}

(* C7 as amended: no sku of either snapshot is missing from the table and
   the table holds no other sku; a sku held by one snapshot only has one row
   per row of that snapshot, a sku held by both has one row per pair of its
   rows: exactly one row when each snapshot holds the sku at one location. *)
C7_RowsPerSku ==
  Reconciled =>
    /\ {report.items[k].sku : k \in 1..Len(report.items)} = AllSkus
    /\ \A sku \in AllSkus :
         LET m == Cardinality(RowsWith(w1.cleaned, sku))
             n == Cardinality(RowsWith(w2.cleaned, sku))
         IN Cardinality(ItemsWith(sku)) =
              IF m > 0 /\ n > 0 THEN m * n ELSE m + n

(* C7 as claimed: exactly one row per distinct sku. *)
C7_OneRowPerSku ==
  Reconciled =>
    /\ {report.items[k].sku : k \in 1..Len(report.items)} = AllSkus
    /\ \A sku \in AllSkus : Cardinality(ItemsWith(sku)) = 1

C7_Witness ==
  /\ Reconciled
  /\ \E sku \in AllSkus :
       /\ Cardinality(RowsWith(w1.cleaned, sku)) = 2
       /\ Cardinality(RowsWith(w2.cleaned, sku)) = 1
       /\ Cardinality(ItemsWith(sku)) = 2

(* C8: every row gets the status of its case, quantities that differ
   including a null quantity on either side, and classification never fails. *)
C8_StatusOfEveryRow ==
  pc = "done" =>
    /\ report.outcome = "ok"
    /\ \A k \in 1..Len(report.items) :
         LET it == report.items[k] IN
         it.status =
           IF In1(it.sku) /\ In2(it.sku)
           THEN IF it.qty_1 = it.qty_2 /\ it.qty_1.t = "int"
                THEN "present_in_both_unchanged"
                ELSE "present_in_both_qty_changed"
           ELSE IF In1(it.sku) THEN "only_in_snapshot_1_removed"
           ELSE "only_in_snapshot_2_added"

(* The place of each status in the lexical order of the four labels *)
LexicalRank ==
  [only_in_snapshot_1_removed |-> 1,
   only_in_snapshot_2_added |-> 2,
   present_in_both_qty_changed |-> 3,
   present_in_both_unchanged |-> 4]

(* The place of each status in the order the specification lists them *)
ListedRank ==
  [present_in_both_unchanged |-> 1,
   present_in_both_qty_changed |-> 2,
   only_in_snapshot_1_removed |-> 3,
   only_in_snapshot_2_added |-> 4]

SortedBy(rank) ==
  \A a, b \in 1..Len(report.items) :
    a < b =>
      \/ rank[report.items[a].status] < rank[report.items[b].status]
      \/ /\ report.items[a].status = report.items[b].status
         /\ ~StrLess(report.items[b].sku.s, report.items[a].sku.s)

(* C9 as amended: the table is sorted by (status, sku) ascending, statuses in
   the lexical order of their labels: only_in_snapshot_1_removed,
   only_in_snapshot_2_added, present_in_both_qty_changed,
   present_in_both_unchanged; within one status by ascending sku. *)
C9_SortedLexically == Reconciled => SortedBy(LexicalRank)

(* C9 as claimed: statuses in the order the specification lists them. *)
C9_SortedAsListed == Reconciled => SortedBy(ListedRank)

C9_Witness ==
  /\ Reconciled
  /\ Len(report.items) = 2
  /\ report.items[1].status = "only_in_snapshot_1_removed"
  /\ report.items[2].status = "present_in_both_unchanged"
  /\ StrLess(report.items[2].sku.s, report.items[1].sku.s)

(* C10: a row whose sku is in one snapshot only has both flags false; a row
   whose sku is in both has name_mismatch iff both names are non-null and
   differ after trimming and lower-casing, and location_changed iff the
   locations, null read as the empty text, are not equal. *)
C10_Flags ==
  Reconciled =>
    \A k \in 1..Len(report.items) :
      LET it == report.items[k] IN
      IF In1(it.sku) /\ In2(it.sku)
      THEN /\ it.name_mismatch <=>
                /\ it.name_1.t = "str" /\ it.name_2.t = "str"
                /\ StrLower(Strip(it.name_1.s)) # StrLower(Strip(it.name_2.s))
           /\ it.location_changed <=>
                (IF it.location_1.t = "str" THEN it.location_1.s ELSE <<>>)
                  # (IF it.location_2.t = "str" THEN it.location_2.s ELSE <<>>)
      ELSE ~it.name_mismatch /\ ~it.location_changed

C10_Witness ==
  /\ Reconciled
  /\ \E k \in 1..Len(report.items) :
       /\ In1(report.items[k].sku) /\ In2(report.items[k].sku)
       /\ report.items[k].name_mismatch
       /\ report.items[k].location_changed
  /\ \E k \in 1..Len(report.items) :
       /\ ~In2(report.items[k].sku)
       /\ ~report.items[k].name_mismatch /\ ~report.items[k].location_changed

====
